---- MODULE Spec2Model ----
(***************************************************************************)
(* Model of so_deep/models.py: the Encoder / ConvEmbedding / LinearDecoder *)
(* / GoodWillHunting classes.  Tensors are modelled by their shapes (a     *)
(* sequence of dimension sizes); the tensor engine's layers are modelled   *)
(* by their shape rules and by the errors they raise.  Every call of a     *)
(* constructor or method is one action; what the call did is recorded in   *)
(* the variable last.                                                      *)
(*                                                                         *)
(* The return annotation of predict (List[str, ...], line 160) is          *)
(* evaluated when the class body runs and is rejected by typing on         *)
(* current interpreters; the model describes the classes as defined, i.e.  *)
(* under postponed evaluation of annotations.                              *)
(***************************************************************************)
EXTENDS Integers, Sequences, FiniteSets, TLC

VARIABLES encoder, decoder, model, registered, last

vars == <<encoder, decoder, model, registered, last>>

----------------------------------------------------------------------------
(* Bounds of the explored inputs *)

MaxKernel == 3
MaxLayers == 2
MaxLen == 2
MaxClasses == 2
MaxRegistered == 1

(* default vocabulary size of ConvEmbedding *)
InputDim == 15000

Devices == {"cpu", "cuda"}
BatchSizes == {1, 2}
NoAttr == "<no attribute>"
EmbDims == {2}
HidDims == {3}
EncDims == {2, 3}
KernelSizes == (0 - MaxKernel)..MaxKernel
LayerCounts == 0..MaxLayers
ClassCounts == 1..MaxClasses
HighwayLayerCounts == {0, 1}
HighwayActs == {"relu"}

(* a token tensor src: its shape and whether all ids lie in [0, input_dim) *)
Sources == [shape : {<<b, l>> : b \in BatchSizes, l \in 0..MaxLen}, idsValid : BOOLEAN]
Targets == {<<b, l>> : b \in BatchSizes, l \in 1..MaxLen}
ClassNameMaps == SUBSET (0..(MaxClasses - 1))

----------------------------------------------------------------------------
(* Results of tensor operations *)

NoShape == <<>>
Ok(shape) == [ok |-> TRUE, err |-> "none", shape |-> shape]
Err(e) == [ok |-> FALSE, err |-> e, shape |-> NoShape]

RECURSIVE Numel(_)
Numel(shape) == IF shape = <<>> THEN 1 ELSE Head(shape) * Numel(Tail(shape))

----------------------------------------------------------------------------
(* The tensor engine's layers, by shape *)

(* nn.Embedding: one emb_dim vector per token id; an id outside the table raises *)
Embedding(src, emb_dim) ==
    IF src.idsValid THEN Ok(src.shape \o <<emb_dim>>) ELSE Err("IndexError")

(* nn.Linear: maps the last dimension in_features -> out_features *)
Linear(shape, in_features, out_features) ==
    IF Len(shape) >= 1 /\ shape[Len(shape)] = in_features
    THEN Ok(SubSeq(shape, 1, Len(shape) - 1) \o <<out_features>>)
    ELSE Err("RuntimeError")

(* tensor.permute(0, 2, 1) *)
Permute021(shape) == <<shape[1], shape[3], shape[2]>>

(* nn.Conv1d, stride 1, dilation 1: the padded input must hold one kernel *)
Conv1d(shape, conv) ==
    IF shape[2] # conv.in_channels \/ shape[3] + 2 * conv.padding < conv.kernel_size
    THEN Err("RuntimeError")
    ELSE Ok(<<shape[1], conv.out_channels,
              shape[3] + 2 * conv.padding - (conv.kernel_size - 1)>>)

(* F.glu(x, dim=1): halves the channel dimension, which must be even *)
Glu(shape) ==
    IF shape[2] % 2 # 0 THEN Err("RuntimeError")
    ELSE Ok(<<shape[1], shape[2] \div 2, shape[3]>>)

(* elementwise sum with broadcasting *)
Broadcastable(a, b) ==
    /\ Len(a) = Len(b)
    /\ \A i \in 1..Len(a) : a[i] = b[i] \/ a[i] = 1 \/ b[i] = 1

Add(a, b) ==
    IF Broadcastable(a, b)
    THEN Ok([i \in 1..Len(a) |-> IF a[i] = 1 THEN b[i] ELSE a[i]])
    ELSE Err("RuntimeError")

----------------------------------------------------------------------------
(* Encoder and ConvEmbedding *)

NoObject == [exists |-> FALSE]

EncoderInit(input_dim, device) ==
    [exists |-> TRUE, input_dim |-> input_dim, device |-> device]

(* the assertion compiled away: every kernel size is accepted *)
KernelSizeUnchecked(kernel_size) == TRUE

KernelSizeIsOdd(kernel_size) == kernel_size % 2 = 1

(* padding as large as the kernel's reach on both sides *)
ConvPaddingFull(kernel_size) == kernel_size - 1

ConvPadding(kernel_size) == (kernel_size - 1) \div 2

Conv1dInit(hid_dim, kernel_size) ==
    [in_channels |-> hid_dim, out_channels |-> 2 * hid_dim,
     kernel_size |-> kernel_size, padding |-> ConvPadding(kernel_size)]

(* The constructor.  created lists the layers built before it returned or raised. *)
ConvEmbeddingInit(input_dim, device, emb_dim, hid_dim, n_layers, kernel_size) ==
    LET base == EncoderInit(input_dim, device) IN
    IF ~KernelSizeIsOdd(kernel_size)
    THEN [err |-> "AssertionError", created |-> <<>>, obj |-> NoObject]
    ELSE IF n_layers >= 1 /\ kernel_size < 1
    THEN [err |-> "RuntimeError",
          created |-> <<"tok_embedding", "emb2hid", "hid2emb">>, obj |-> NoObject]
    ELSE [err |-> "none",
          created |-> <<"tok_embedding", "emb2hid", "hid2emb", "convs", "dropout">>,
          obj |-> [exists |-> TRUE, input_dim |-> base.input_dim,
                   device |-> base.device,
                   emb_dim |-> emb_dim, hid_dim |-> hid_dim,
                   kernel_size |-> kernel_size,
                   convs |-> [i \in 1..n_layers |-> Conv1dInit(hid_dim, kernel_size)]]]

(* conved before the first iteration of the loop: the name is not bound *)
Unbound == <<>>

(* the one element of a singleton set: The({e(x) : x \in {v}}) is e with x    *)
(* standing for the value of v, computed once                                 *)
The(S) == CHOOSE x \in S : TRUE

(* One iteration: convolution, GLU, residual sum (scaling keeps the shape). *)
ConvLayer(conv, conv_input) ==
    LET c == Conv1d(conv_input, conv) IN
    IF ~c.ok THEN c
    ELSE LET g == Glu(c.shape) IN
         IF ~g.ok THEN g ELSE Add(g.shape, conv_input)

(* The loop of forward over self.convs, from layer i on.  hidden collects the  *)
(* shape of conv_input before the first layer and after every layer.           *)
RECURSIVE ConvLoop(_, _, _, _, _)
ConvLoop(convs, i, conv_input, conved, hidden) ==
    IF i > Len(convs)
    THEN [ok |-> TRUE, err |-> "none", conved |-> conved, hidden |-> hidden]
    ELSE The({ IF ~r.ok
               THEN [ok |-> FALSE, err |-> r.err, conved |-> Unbound, hidden |-> hidden]
               ELSE ConvLoop(convs, i + 1, r.shape, r.shape, Append(hidden, r.shape))
               : r \in {ConvLayer(convs[i], conv_input)} })

(* forward from the permuted projection on: the loop, then hid2emb *)
ConvEmbeddingConvolve(enc, conv_input) ==
    The({ IF ~loop.ok
          THEN [ok |-> FALSE, err |-> loop.err, shape |-> NoShape, hidden |-> loop.hidden]
          ELSE IF loop.conved = Unbound
          THEN [ok |-> FALSE, err |-> "UnboundLocalError", shape |-> NoShape,
                hidden |-> loop.hidden]
          ELSE The({ [ok |-> out.ok, err |-> out.err, shape |-> out.shape,
                      hidden |-> loop.hidden]
                     : out \in {Linear(Permute021(loop.conved), enc.hid_dim, enc.emb_dim)} })
          : loop \in {ConvLoop(enc.convs, 1, conv_input, Unbound, <<conv_input>>)} })

ConvEmbeddingForward(enc, src) ==
    LET tok_embedded == Embedding(src, enc.emb_dim) IN
    IF ~tok_embedded.ok
    THEN [ok |-> FALSE, err |-> tok_embedded.err, shape |-> NoShape, hidden |-> <<>>]
    ELSE The({ IF ~projected.ok
               THEN [ok |-> FALSE, err |-> projected.err, shape |-> NoShape,
                     hidden |-> <<>>]
               ELSE ConvEmbeddingConvolve(enc, Permute021(projected.shape))
               : projected \in {Linear(tok_embedded.shape, enc.emb_dim, enc.hid_dim)} })

----------------------------------------------------------------------------
(* LinearDecoder *)

(* a constructor that builds the highway branch when layers are asked for *)
LinearDecoderInitWithHighway(enc_dim, out_dim, highway_layers, highway_act) ==
    [exists |-> TRUE, enc_dim |-> enc_dim, out_dim |-> out_dim,
     highway |-> highway_layers > 0, relu |-> TRUE, device |-> NoAttr]

(* highway is TRUE when self.highway is not None.  The constructor sets no    *)
(* device attribute.                                                          *)
LinearDecoderInit(enc_dim, out_dim, highway_layers, highway_act) ==
    [exists |-> TRUE, enc_dim |-> enc_dim, out_dim |-> out_dim,
     highway |-> FALSE, relu |-> TRUE, device |-> NoAttr]

(* applied lists the layers the input went through *)
LinearDecoderForward(dec, enc_outs) ==
    LET viaHighway == IF dec.highway THEN Linear(enc_outs, dec.enc_dim, dec.enc_dim)
                      ELSE Ok(enc_outs)
        before == IF dec.highway THEN <<"highway">> ELSE <<>> IN
    IF ~viaHighway.ok
    THEN [ok |-> FALSE, err |-> viaHighway.err, shape |-> NoShape, applied |-> before]
    ELSE LET linear_out == Linear(viaHighway.shape, dec.enc_dim, dec.out_dim) IN
         [ok |-> linear_out.ok, err |-> linear_out.err, shape |-> linear_out.shape,
          applied |-> Append(before, "decoder")]

----------------------------------------------------------------------------
(* GoodWillHunting *)

(* The assertion of __init__, left to right: the encoder's device is compared *)
(* first; only if it agrees is categorizer.device read.                       *)
DevicesAgree(enc, cat, device) ==
    IF enc.device # device THEN "AssertionError"
    ELSE IF cat.device = NoAttr THEN "AttributeError"
    ELSE IF cat.device = device THEN "none"
    ELSE "AssertionError"

(* steps counts the updates applied to the model's parameters and buffers:    *)
(* none at construction.                                                      *)
GoodWillHuntingInit(enc, cat, device) ==
    LET checked == DevicesAgree(enc, cat, device) IN
    IF checked # "none"
    THEN [err |-> checked, obj |-> NoObject]
    ELSE [err |-> "none",
          obj |-> [exists |-> TRUE, device |-> device,
                   nll_weight |-> [i \in 1..cat.out_dim |-> 1], steps |-> 0]]

(* self(src, **kwargs): forward takes src alone *)
GoodWillHuntingForward(enc, dec, src, kwargs) ==
    IF kwargs # {} THEN Err("TypeError")
    ELSE The({ IF ~encoder_out.ok THEN Err(encoder_out.err)
               ELSE The({ IF ~classifier_out.ok THEN Err(classifier_out.err)
                          ELSE Ok(classifier_out.shape)
                          : classifier_out \in {LinearDecoderForward(dec, encoder_out.shape)} })
               : encoder_out \in {ConvEmbeddingForward(enc, src)} })

(* torch.argmax(out, 2) *)
Argmax2(shape) == <<shape[1], shape[2]>>

(* predict.  The labels are known by position only: which class wins at a     *)
(* position depends on the weights.  logits.tolist() is a list of rows, and   *)
(* each row, a list, is the key looked up in classnames.                      *)
Predict(enc, dec, src, classnames) ==
    The({ IF ~out.ok THEN [err |-> out.err, labels |-> <<>>]
          ELSE IF Argmax2(out.shape)[1] >= 1 THEN [err |-> "TypeError", labels |-> <<>>]
          ELSE [err |-> "none", labels |-> <<>>]
          : out \in {GoodWillHuntingForward(enc, dec, src, {"out"})} })

Call(fn, args) == [fn |-> fn, args |-> args]

(* the loss collaborator: as many score rows as targets, or it raises *)
Criterion(scores, targets) ==
    IF scores[1] = targets[1] THEN [err |-> "none", loss |-> <<"loss", scores, targets>>]
    ELSE [err |-> "ValueError", loss |-> <<>>]

(* output.view(-1, self.decoder.out_dim) and trg.view(-1) *)
FlatScores(output, out_dim) == <<Numel(output) \div out_dim, out_dim>>
FlatTargets(trg) == <<Numel(trg)>>

(* a train_epoch that computes the loss before it registers the batch *)
TrainEpochLossFirst(enc, dec, m, src, trg) ==
    The({ IF ~output.ok
          THEN [err |-> output.err, calls |-> <<Call("forward", <<src.shape>>)>>,
                ret |-> <<>>, model |-> m]
          ELSE The({ IF loss.err # "none"
                     THEN [err |-> loss.err,
                           calls |-> <<Call("forward", <<src.shape>>),
                                       Call("criterion", <<FlatScores(output.shape, dec.out_dim),
                                                           FlatTargets(trg)>>)>>,
                           ret |-> <<>>, model |-> m]
                     ELSE [err |-> "none",
                           calls |-> <<Call("forward", <<src.shape>>),
                                       Call("criterion", <<FlatScores(output.shape, dec.out_dim),
                                                           FlatTargets(trg)>>),
                                       Call("register_batch",
                                            <<Argmax2(output.shape), trg, src.shape>>)>>,
                           ret |-> loss.loss, model |-> m]
                     : loss \in {Criterion(FlatScores(output.shape, dec.out_dim),
                                           FlatTargets(trg))} })
          : output \in {GoodWillHuntingForward(enc, dec, src, {})} })

(* a train_epoch that also takes an optimizer step *)
TrainEpochWithStep(enc, dec, m, src, trg) ==
    The({ IF ~output.ok
          THEN [err |-> output.err, calls |-> <<Call("forward", <<src.shape>>)>>,
                ret |-> <<>>, model |-> m]
          ELSE The({ IF loss.err # "none"
                     THEN [err |-> loss.err,
                           calls |-> <<Call("forward", <<src.shape>>),
                                       Call("register_batch",
                                            <<Argmax2(output.shape), trg, src.shape>>),
                                       Call("criterion", <<FlatScores(output.shape, dec.out_dim),
                                                           FlatTargets(trg)>>)>>,
                           ret |-> <<>>, model |-> m]
                     ELSE [err |-> "none",
                           calls |-> <<Call("forward", <<src.shape>>),
                                       Call("register_batch",
                                            <<Argmax2(output.shape), trg, src.shape>>),
                                       Call("criterion", <<FlatScores(output.shape, dec.out_dim),
                                                           FlatTargets(trg)>>)>>,
                           ret |-> loss.loss, model |-> [m EXCEPT !.steps = @ + 1]]
                     : loss \in {Criterion(FlatScores(output.shape, dec.out_dim),
                                           FlatTargets(trg))} })
          : output \in {GoodWillHuntingForward(enc, dec, src, {})} })

(* train_epoch: the collaborators' calls in order, the value returned or the  *)
(* error raised, and the model after the call (steps counts the updates of    *)
(* its parameters).                                                           *)
TrainEpoch(enc, dec, m, src, trg) ==
    The({ IF ~output.ok
          THEN [err |-> output.err, calls |-> <<Call("forward", <<src.shape>>)>>,
                ret |-> <<>>, model |-> m]
          ELSE The({ IF loss.err # "none"
                     THEN [err |-> loss.err,
                           calls |-> <<Call("forward", <<src.shape>>),
                                       Call("register_batch",
                                            <<Argmax2(output.shape), trg, src.shape>>),
                                       Call("criterion", <<FlatScores(output.shape, dec.out_dim),
                                                           FlatTargets(trg)>>)>>,
                           ret |-> <<>>, model |-> m]
                     ELSE [err |-> "none",
                           calls |-> <<Call("forward", <<src.shape>>),
                                       Call("register_batch",
                                            <<Argmax2(output.shape), trg, src.shape>>),
                                       Call("criterion", <<FlatScores(output.shape, dec.out_dim),
                                                           FlatTargets(trg)>>)>>,
                           ret |-> loss.loss, model |-> m]
                     : loss \in {Criterion(FlatScores(output.shape, dec.out_dim),
                                           FlatTargets(trg))} })
          : output \in {GoodWillHuntingForward(enc, dec, src, {})} })

(* how many times the call reached scorer.register_batch *)
Registrations(calls) == Cardinality({i \in 1..Len(calls) : calls[i].fn = "register_batch"})

----------------------------------------------------------------------------
(* The calls.  encoder, decoder and model are the objects the caller holds    *)
(* (each is built once; a constructor that raises leaves none); registered is *)
(* the number of batches the scorer has been handed; last is the most recent  *)
(* call: its arguments, the error it raised ("none" if it returned), the      *)
(* shape it returned, what it did on the way (trace) and its return value.    *)

Result(op, args, err, out, trace, ret) ==
    [op |-> op, args |-> args, err |-> err, out |-> out, trace |-> trace, ret |-> ret]

(* The caller builds its objects and then either makes one of the calls that *)
(* keep no state (the forward passes and predict) or trains on up to         *)
(* MaxRegistered batches.  A stateless call neither reads nor changes what   *)
(* an earlier call left behind, so it is explored once per configuration of  *)
(* objects, right after a construction step.                                 *)
ConstructionSteps == {"none", "ConvEmbedding", "LinearDecoder", "set_device", "GoodWillHunting"}
AfterConstruction == last.op \in ConstructionSteps
Training == AfterConstruction \/ last.op = "train_epoch"

Init ==
    /\ encoder = NoObject
    /\ decoder = NoObject
    /\ model = NoObject
    /\ registered = 0
    /\ last = Result("none", <<>>, "none", NoShape, <<>>, <<>>)

NewConvEmbedding(device, emb_dim, hid_dim, n_layers, kernel_size) ==
    /\ ~encoder.exists
    /\ \E r \in {ConvEmbeddingInit(InputDim, device, emb_dim, hid_dim, n_layers, kernel_size)} :
       /\ encoder' = r.obj
       /\ last' = Result("ConvEmbedding",
                         [device |-> device, emb_dim |-> emb_dim, hid_dim |-> hid_dim,
                          n_layers |-> n_layers, kernel_size |-> kernel_size],
                         r.err, NoShape, r.created, <<>>)
    /\ UNCHANGED <<decoder, model, registered>>

NewLinearDecoder(enc_dim, out_dim, highway_layers, highway_act) ==
    /\ ~decoder.exists
    /\ decoder' = LinearDecoderInit(enc_dim, out_dim, highway_layers, highway_act)
    /\ last' = Result("LinearDecoder",
                      [enc_dim |-> enc_dim, out_dim |-> out_dim,
                       highway_layers |-> highway_layers, highway_act |-> highway_act],
                      "none", NoShape, <<>>, <<>>)
    /\ UNCHANGED <<encoder, model, registered>>

(* the caller tags the decoder with a device before composing the model *)
SetCategorizerDevice(device) ==
    /\ decoder.exists
    /\ ~model.exists
    /\ decoder.device # device
    /\ decoder' = [decoder EXCEPT !.device = device]
    /\ last' = Result("set_device", [device |-> device], "none", NoShape, <<>>, <<>>)
    /\ UNCHANGED <<encoder, model, registered>>

NewGoodWillHunting(device) ==
    /\ encoder.exists
    /\ decoder.exists
    /\ ~model.exists
    /\ \E r \in {GoodWillHuntingInit(encoder, decoder, device)} :
       /\ model' = r.obj
       /\ last' = Result("GoodWillHunting",
                         [encoder |-> encoder.device, decoder |-> decoder.device,
                          device |-> device, out_dim |-> decoder.out_dim],
                         r.err, NoShape, <<>>, <<>>)
    /\ UNCHANGED <<encoder, decoder, registered>>

CallEncoderForward(src) ==
    /\ encoder.exists
    /\ AfterConstruction
    /\ \E r \in {ConvEmbeddingForward(encoder, src)} :
       last' = Result("ConvEmbedding.forward", [src |-> src], r.err, r.shape, r.hidden, <<>>)
    /\ UNCHANGED <<encoder, decoder, model, registered>>

CallDecoderForward(enc_outs) ==
    /\ decoder.exists
    /\ AfterConstruction
    /\ \E r \in {LinearDecoderForward(decoder, enc_outs)} :
       last' = Result("LinearDecoder.forward", [enc_outs |-> enc_outs], r.err, r.shape,
                      r.applied, <<>>)
    /\ UNCHANGED <<encoder, decoder, model, registered>>

CallForward(src) ==
    /\ model.exists
    /\ AfterConstruction
    /\ \E r \in {GoodWillHuntingForward(encoder, decoder, src, {})} :
       last' = Result("forward", [src |-> src], r.err, r.shape, <<>>, <<>>)
    /\ UNCHANGED <<encoder, decoder, model, registered>>

CallPredict(src, classnames) ==
    /\ model.exists
    /\ AfterConstruction
    /\ \E r \in {Predict(encoder, decoder, src, classnames)} :
       last' = Result("predict", [src |-> src, classnames |-> classnames], r.err, NoShape,
                      <<>>, r.labels)
    /\ UNCHANGED <<encoder, decoder, model, registered>>

CallTrainEpoch(src, trg) ==
    /\ model.exists
    /\ Training
    /\ registered < MaxRegistered
    /\ \E r \in {TrainEpoch(encoder, decoder, model, src, trg)} :
       /\ model' = r.model
       /\ registered' = registered + Registrations(r.calls)
       /\ last' = Result("train_epoch", [src |-> src, trg |-> trg], r.err, NoShape,
                         r.calls, r.ret)
    /\ UNCHANGED <<encoder, decoder>>

Next ==
    \/ \E device \in Devices, emb_dim \in EmbDims, hid_dim \in HidDims,
          n_layers \in LayerCounts, kernel_size \in KernelSizes :
          NewConvEmbedding(device, emb_dim, hid_dim, n_layers, kernel_size)
    \/ \E enc_dim \in EncDims, out_dim \in ClassCounts,
          highway_layers \in HighwayLayerCounts, highway_act \in HighwayActs :
          NewLinearDecoder(enc_dim, out_dim, highway_layers, highway_act)
    \/ \E device \in Devices : SetCategorizerDevice(device)
    \/ \E device \in Devices : NewGoodWillHunting(device)
    \/ \E src \in Sources : CallEncoderForward(src)
    \/ \E b \in BatchSizes, l \in 1..MaxLen, d \in EncDims : CallDecoderForward(<<b, l, d>>)
    \/ \E src \in Sources, classnames \in ClassNameMaps : CallPredict(src, classnames)
    \/ \E src \in Sources : CallForward(src)
    \/ \E src \in Sources, trg \in Targets : CallTrainEpoch(src, trg)

Spec == Init /\ [][Next]_vars

----------------------------------------------------------------------------
(* Properties *)

Batch(src) == src.shape[1]
SeqLen(src) == src.shape[2]

(* the inputs on which the composed forward pass is expected to go through:   *)
(* token ids inside the table, a non-empty sequence, at least one             *)
(* convolution layer, and a decoder as wide as the encoder's output           *)
EncoderInputOk(src) == src.idsValid /\ SeqLen(src) >= 1
ForwardInputOk(src) ==
    /\ EncoderInputOk(src)
    /\ Len(encoder.convs) >= 1
    /\ decoder.enc_dim = encoder.emb_dim

(* C1: ConvEmbedding with an even kernel_size (zero and negative included)    *)
(* raises the kernel-size assertion before any layer is built, and no encoder *)
(* is returned.                                                               *)
C1_EvenKernelRejected ==
    (last.op = "ConvEmbedding" /\ last.args.kernel_size % 2 = 0)
        => (/\ last.err = "AssertionError"
            /\ last.trace = <<>>
            /\ ~encoder.exists)

C1_Witness ==
    /\ last.op = "ConvEmbedding"
    /\ last.args.kernel_size < 0
    /\ last.args.kernel_size % 2 = 0
    /\ last.err = "AssertionError"

(* C2: whenever the encoder's device, the decoder's device and the declared   *)
(* device are not all identical, GoodWillHunting raises the device assertion  *)
(* and no model is produced.                                                  *)
C2_DeviceMismatchRejected ==
    (/\ last.op = "GoodWillHunting"
     /\ ~(last.args.encoder = last.args.device /\ last.args.decoder = last.args.device))
        => (last.err = "AssertionError" /\ ~model.exists)

(* C3: a ConvEmbedding and a LinearDecoder as their constructors built them,  *)
(* composed with the encoder's device, give a model whose nll_weight holds    *)
(* out_dim ones.                                                              *)
C3_ComposeAsConstructed ==
    (/\ last.op = "GoodWillHunting"
     /\ last.args.decoder = NoAttr
     /\ last.args.encoder = last.args.device)
        => (/\ last.err = "none"
            /\ model.exists
            /\ model.nll_weight = [i \in 1..last.args.out_dim |-> 1])

(* C4: with an odd kernel_size >= 1 and at least one layer, forward keeps the *)
(* sequence length: the hidden tensor is (batch, hid_dim, L) before and after *)
(* every layer and the output is (batch, L, emb_dim).                         *)
C4_LengthPreserved ==
    (/\ last.op = "ConvEmbedding.forward"
     /\ EncoderInputOk(last.args.src)
     /\ Len(encoder.convs) >= 1)
        => (/\ last.err = "none"
            /\ last.out = <<Batch(last.args.src), SeqLen(last.args.src), encoder.emb_dim>>
            /\ Len(last.trace) = Len(encoder.convs) + 1
            /\ \A i \in 1..Len(last.trace) :
                   last.trace[i] = <<Batch(last.args.src), encoder.hid_dim,
                                     SeqLen(last.args.src)>>)

C4_Witness ==
    /\ last.op = "ConvEmbedding.forward"
    /\ encoder.kernel_size = 3
    /\ Len(encoder.convs) = 2
    /\ SeqLen(last.args.src) = 2
    /\ last.out = <<Batch(last.args.src), 2, encoder.emb_dim>>

(* C5: predict returns one label per token position per batch element.        *)
C5_PredictLabelsEveryPosition ==
    (last.op = "predict" /\ ForwardInputOk(last.args.src))
        => (/\ last.err = "none"
            /\ Len(last.ret) = Batch(last.args.src)
            /\ \A i \in 1..Len(last.ret) : Len(last.ret[i]) = SeqLen(last.args.src))

(* C9: with no convolution layer, forward still returns (batch, L, emb_dim).  *)
C9_NoLayersForward ==
    (/\ last.op = "ConvEmbedding.forward"
     /\ EncoderInputOk(last.args.src)
     /\ Len(encoder.convs) = 0)
        => (/\ last.err = "none"
            /\ last.out = <<Batch(last.args.src), SeqLen(last.args.src), encoder.emb_dim>>)

(* C7: LinearDecoder.forward keeps the leading dimensions and ends in         *)
(* out_dim, and the input goes through the one linear projection only: no     *)
(* decoder has a highway branch, whatever highway_layers it was built with.   *)
C7_DecoderProjectsOnly ==
    /\ decoder.exists => ~decoder.highway
    /\ (/\ last.op = "LinearDecoder.forward"
        /\ last.args.enc_outs[3] = decoder.enc_dim)
           => (/\ last.err = "none"
               /\ last.out = <<last.args.enc_outs[1], last.args.enc_outs[2], decoder.out_dim>>
               /\ last.trace = <<"decoder">>)

C7_Witness ==
    /\ last.op = "LinearDecoder.forward"
    /\ last.args.enc_outs[3] = decoder.enc_dim
    /\ decoder.out_dim # decoder.enc_dim
    /\ last.out = <<last.args.enc_outs[1], last.args.enc_outs[2], decoder.out_dim>>

(* the three calls of a train_epoch on src and trg, in order *)
ExpectedCalls(src, trg) ==
    <<Call("forward", <<src.shape>>),
      Call("register_batch", <<src.shape, trg, src.shape>>),
      Call("criterion", <<<<Batch(src) * SeqLen(src), decoder.out_dim>>, <<Numel(trg)>>>>)>>

(* C6: with trg shaped like src, a train_epoch call is one forward pass, then *)
(* one register_batch of (argmax, trg, src), then one criterion call on the   *)
(* flattened scores and targets; it returns the criterion's value and leaves  *)
(* the model (parameters, nll_weight), the encoder and the decoder as they    *)
(* were.                                                                      *)
C6_TrainEpochSequence ==
    [][(/\ last'.op = "train_epoch"
        /\ ForwardInputOk(last'.args.src)
        /\ last'.args.trg = last'.args.src.shape)
           => (/\ last'.err = "none"
               /\ last'.trace = ExpectedCalls(last'.args.src, last'.args.trg)
               /\ last'.ret = Criterion(last'.trace[3].args[1], last'.trace[3].args[2]).loss
               /\ registered' = registered + 1
               /\ model' = model
               /\ encoder' = encoder
               /\ decoder' = decoder)]_vars

C6_Witness ==
    /\ last.op = "train_epoch"
    /\ last.args.trg = last.args.src.shape
    /\ Batch(last.args.src) = 2
    /\ SeqLen(last.args.src) = 2
    /\ last.err = "none"
    /\ registered = 1

(* C10: when trg does not hold batch*L entries, train_epoch raises at the     *)
(* loss computation and returns no loss; the scorer has by then been handed   *)
(* the batch once.                                                            *)
C10_ErrorAfterRegistration ==
    [][(/\ last'.op = "train_epoch"
        /\ ForwardInputOk(last'.args.src)
        /\ Numel(last'.args.trg) # Batch(last'.args.src) * SeqLen(last'.args.src))
           => (/\ last'.err = "ValueError"
               /\ last'.ret = <<>>
               /\ last'.trace = ExpectedCalls(last'.args.src, last'.args.trg)
               /\ registered' = registered + 1)]_vars

C10_Witness ==
    /\ last.op = "train_epoch"
    /\ Numel(last.args.trg) # Batch(last.args.src) * SeqLen(last.args.src)
    /\ last.err = "ValueError"
    /\ registered = 1

====
